---- MODULE Spec2Model ----
(***************************************************************************)
(* Model of next-server/scripts/inspect-weights.py: one run of main() over *)
(* one safetensors index file.  A Python str is a sequence of characters;  *)
(* a character is a TLA+ string naming one code point ("a", ".", "\n",     *)
(* "U+0663" for ARABIC-INDIC DIGIT THREE, "U+D800" for a lone surrogate,   *)
(* which a JSON string can hold as the escape \ud800).                     *)
(***************************************************************************)
EXTENDS Integers, Sequences, FiniteSets

VARIABLES pc, file, idx, keys, have, layer_prefixes, out, status, err

vars == <<pc, file, idx, keys, have, layer_prefixes, out, status, err>>

(***************************************************************************)
(* String literals of the source.                                          *)
(***************************************************************************)
Dot == <<".">>
NL == "\n"
s_text_emb == <<"t", "e", "x", "t", "_", "e", "m", "b">>
s_text_out_head == <<"t", "e", "x", "t", "_", "o", "u", "t", "_", "h", "e", "a", "d">>
s_audio_emb == <<"a", "u", "d", "i", "o", "_", "e", "m", "b">>
s_audio_out_heads == <<"a", "u", "d", "i", "o", "_", "o", "u", "t", "_", "h", "e", "a", "d", "s">>
s_transformer == <<"t", "r", "a", "n", "s", "f", "o", "r", "m", "e", "r">>
s_layers == <<"l", "a", "y", "e", "r", "s">>
s_model == <<"m", "o", "d", "e", "l">>
s_output_norm == <<"o", "u", "t", "p", "u", "t", "_", "n", "o", "r", "m">>
s_norm == <<"n", "o", "r", "m">>
s_weight == <<"w", "e", "i", "g", "h", "t">>
s_self_attn == <<"s", "e", "l", "f", "_", "a", "t", "t", "n">>
s_attention == <<"a", "t", "t", "e", "n", "t", "i", "o", "n">>
s_attn == <<"a", "t", "t", "n">>
s_mlp == <<"m", "l", "p">>
s_feed_forward == <<"f", "e", "e", "d", "_", "f", "o", "r", "w", "a", "r", "d">>
s_ffn == <<"f", "f", "n">>
s_norm1 == <<"n", "o", "r", "m", "1">>
s_attention_norm == <<"a", "t", "t", "e", "n", "t", "i", "o", "n", "_", "n", "o", "r", "m">>
s_norm2 == <<"n", "o", "r", "m", "2">>
s_ffn_norm == <<"f", "f", "n", "_", "n", "o", "r", "m">>
s_post_attention_layernorm == <<"p", "o", "s", "t", "_", "a", "t", "t", "e", "n", "t", "i", "o", "n", "_", "l", "a", "y", "e", "r", "n", "o", "r", "m">>

\* required = ['text_emb.weight', 'text_out_head.weight']
required == <<s_text_emb \o Dot \o s_weight, s_text_out_head \o Dot \o s_weight>>

\* known_prefixes
known_prefixes ==
    << s_text_emb, s_text_out_head, s_audio_emb, s_audio_out_heads,
       s_transformer, s_layers, s_model \o Dot \o s_layers,
       s_model \o Dot \o s_norm, s_output_norm, s_norm >>

\* sorted(layer_prefixes.keys())[:2]
InspectLayers == 2
\* sorted(unknown.items(), ...)[:10]
TopUnknown == 10

(***************************************************************************)
(* Python built-ins and the re module, as far as the script uses them.     *)
(***************************************************************************)
AsciiDigits == {"0", "1", "2", "3", "4", "5", "6", "7", "8", "9"}

\* \d in a str pattern: any Unicode decimal digit (category Nd), not only 0-9
IsDigit(c) == c \in AsciiDigits \cup {"U+0663"}

\* the value int() gives a decimal digit character
DigitValue(c) ==
    CASE c = "0" -> 0 [] c = "1" -> 1 [] c = "2" -> 2 [] c = "3" -> 3
      [] c = "4" -> 4 [] c = "5" -> 5 [] c = "6" -> 6 [] c = "7" -> 7
      [] c = "8" -> 8 [] c = "9" -> 9 [] c = "U+0663" -> 3

RECURSIVE IntOf(_)
\* int(s) for a non-empty string of decimal digits
IntOf(ds) ==
    IF ds = <<>> THEN 0
    ELSE IntOf(SubSeq(ds, 1, Len(ds) - 1)) * 10 + DigitValue(ds[Len(ds)])

Min(S) == CHOOSE m \in S : \A x \in S : m <= x

\* str.startswith
StartsWith(s, pfx) == Len(s) >= Len(pfx) /\ SubSeq(s, 1, Len(pfx)) = pfx

\* the literal lit matches k at position pos
LiteralAt(k, pos, lit) ==
    Len(k) >= pos + Len(lit) - 1 /\ SubSeq(k, pos, pos + Len(lit) - 1) = lit

\* \d+ from pos, greedy: the position after the longest run of digits
DigitRunEnd(k, pos) ==
    Min({j \in pos..(Len(k) + 1) : j = Len(k) + 1 \/ ~IsDigit(k[j])})

\* .+ from pos, greedy, without DOTALL: the position after the longest run
\* of characters other than a newline
DotRunEnd(k, pos) ==
    Min({j \in pos..(Len(k) + 1) : j = Len(k) + 1 \/ k[j] = NL})

\* $ without MULTILINE: at the end of the string, or just before a newline
\* that is the string's last character
DollarAt(k, pos) ==
    \/ pos = Len(k) + 1
    \/ pos = Len(k) /\ k[pos] = NL

\* re.match(r'^<name>\.\d+\.weight$', k) for name = audio_emb, audio_out_heads
AudioMatch(name, k) ==
    LET p == name \o Dot
        i == Len(p) + 1
        j == DigitRunEnd(k, i)
        w == Dot \o s_weight
    IN  /\ StartsWith(k, p)
        /\ j > i
        /\ LiteralAt(k, j, w)
        /\ DollarAt(k, j + Len(w))

NoMatch == [ok |-> FALSE, g2 |-> <<>>, g3 |-> <<>>]

\* one alternative of (transformer|layers|model\.layers), then \.(\d+)\.(.+)
LayerMatchAlt(alt, k) ==
    LET p == alt \o Dot
        i == Len(p) + 1
        j == DigitRunEnd(k, i)
        e == DotRunEnd(k, j + 1)
    IN  IF /\ StartsWith(k, p)
           /\ j > i
           /\ LiteralAt(k, j, Dot)
           /\ e > j + 1
        THEN [ok |-> TRUE, g2 |-> SubSeq(k, i, j - 1), g3 |-> SubSeq(k, j + 1, e - 1)]
        ELSE NoMatch

layer_alternatives == <<s_transformer, s_layers, s_model \o Dot \o s_layers>>

\* re.match(r'^(transformer|layers|model\.layers)\.(\d+)\.(.+)', k): the
\* alternatives are tried in order
LayerMatch(k) ==
    LET hits == {a \in 1..Len(layer_alternatives) :
                    LayerMatchAlt(layer_alternatives[a], k).ok}
    IN  IF hits = {} THEN NoMatch
        ELSE LayerMatchAlt(layer_alternatives[Min(hits)], k)

\* k.split('.')[0]
FirstSegment(k) ==
    LET dots == {i \in 1..Len(k) : k[i] = "."}
    IN  IF dots = {} THEN k ELSE SubSeq(k, 1, Min(dots) - 1)

RECURSIVE sorted(_)
\* sorted() of a collection of distinct ints
sorted(S) ==
    IF S = {} THEN <<>>
    ELSE LET m == Min(S) IN <<m>> \o sorted(S \ {m})

\* s[:n]
Take(s, n) == SubSeq(s, 1, IF Len(s) < n THEN Len(s) ELSE n)

\* set(keys)
SetOf(s) == {s[i] : i \in 1..Len(s)}

(***************************************************************************)
(* The analysis passes of main(), as functions of keys.                    *)
(***************************************************************************)
\* variant: any(x.startswith(k) for x in have)
RequiredStatus_prefix(k, h) ==
    IF \E x \in h : StartsWith(x, k) THEN "OK" ELSE "MISSING"

\* 'OK' if k in have else 'MISSING'
RequiredStatus(k, h) == IF k \in h THEN "OK" ELSE "MISSING"

\* for k in required: print(f'{k:>28}:', ...)
RequiredLines(h) ==
    [n \in 1..Len(required) |->
        [t |-> "required", k |-> required[n], status |-> RequiredStatus(required[n], h)]]

\* sorted(k for k in keys if re.match(r'^<name>\.\d+\.weight$', k))
AudioKeys(name, ks) == {i \in 1..Len(ks) : AudioMatch(name, ks[i])}

\* print(f'audio_emb.*.weight count: ...'); print(f'audio_out_heads.*.weight count: ...')
AudioLines(ks) ==
    << [t |-> "audio_emb", n |-> Cardinality(AudioKeys(s_audio_emb, ks))],
       [t |-> "audio_out_heads", n |-> Cardinality(AudioKeys(s_audio_out_heads, ks))] >>

\* layer_prefixes[int(m.group(2))].append(m.group(3)) on a defaultdict(list)
AppendSuffix(lp, i, s) ==
    IF i \in DOMAIN lp THEN [lp EXCEPT ![i] = Append(@, s)]
    ELSE [j \in DOMAIN lp \cup {i} |-> IF j = i THEN <<s>> ELSE lp[j]]

RECURSIVE GroupLayers(_, _)
\* for k in keys: m = re.match(...); if m: ...
GroupLayers(ks, lp) ==
    IF ks = <<>> THEN lp
    ELSE LET m == LayerMatch(Head(ks))
         IN  GroupLayers(Tail(ks),
                         IF m.ok THEN AppendSuffix(lp, IntOf(m.g2), m.g3) ELSE lp)

\* variant: any(pfx in s for s in params)
has_anywhere(params, pfx) ==
    \E n \in 1..Len(params) :
        \E a \in 1..(Len(params[n]) + 1) : LiteralAt(params[n], a, pfx)

\* def has(pfx): return any(s.startswith(pfx) for s in params)
has(params, pfx) == \E n \in 1..Len(params) : StartsWith(params[n], pfx)

\* print(f'Layer {i}: attn: ..., mlp: ..., norms: .../...')
LayerLine(i, params) ==
    [t |-> "layer", i |-> i,
     attn |-> has(params, s_self_attn \o Dot) \/ has(params, s_attention \o Dot)
                \/ has(params, s_attn \o Dot),
     mlp |-> has(params, s_mlp \o Dot) \/ has(params, s_feed_forward \o Dot)
                \/ has(params, s_ffn \o Dot),
     norm1 |-> has(params, s_norm1) \/ has(params, s_attention_norm),
     norm2 |-> has(params, s_norm2) \/ has(params, s_ffn_norm)
                \/ has(params, s_post_attention_layernorm)]

RECURSIVE DecimalOf(_)
\* str(n) for n >= 0
DecimalOf(n) ==
    IF n < 10 THEN <<n>> ELSE Append(DecimalOf(n \div 10), n % 10)

\* a < b as decimal strings
StrLess(a, b) ==
    \E n \in 1..(Len(a) + 1) :
        /\ \A x \in 1..(n - 1) : x <= Len(b) /\ a[x] = b[x]
        /\ \/ n = Len(a) + 1 /\ Len(b) >= n
           \/ n <= Len(a) /\ n <= Len(b) /\ a[n] < b[n]

RECURSIVE sorted_as_text(_)
\* variant: the indices kept as text, sorted() in string order
sorted_as_text(S) ==
    IF S = {} THEN <<>>
    ELSE LET m == CHOOSE x \in S :
                     \A y \in S \ {x} : StrLess(DecimalOf(x), DecimalOf(y))
         IN  <<m>> \o sorted_as_text(S \ {m})

LayerOrder_as_text(lp) == sorted_as_text(DOMAIN lp)

\* sorted(layer_prefixes.keys())
LayerOrder(lp) == sorted(DOMAIN lp)

\* if layer_prefixes: ... else: print('No transformer layer prefixes found.')
LayerReport(lp) ==
    IF DOMAIN lp # {}
    THEN LET first == Take(LayerOrder(lp), InspectLayers)
         IN  <<[t |-> "found", n |-> Cardinality(DOMAIN lp)]>>
             \o [n \in 1..Len(first) |-> LayerLine(first[n], lp[first[n]])]
    ELSE <<[t |-> "no_layers"]>>

\* top[p] += 1 on a defaultdict(int); the items keep their insertion order
Bump(top, p) ==
    IF \E n \in 1..Len(top) : top[n].p = p
    THEN [n \in 1..Len(top) |->
            IF top[n].p = p THEN [p |-> p, c |-> top[n].c + 1] ELSE top[n]]
    ELSE Append(top, [p |-> p, c |-> 1])

RECURSIVE Tally(_, _)
\* for k in keys: top[k.split('.')[0]] += 1
Tally(ks, top) ==
    IF ks = <<>> THEN top
    ELSE Tally(Tail(ks), Bump(top, FirstSegment(Head(ks))))

\* variant: any(p == kp for kp in known_prefixes)
IsKnown_whole_entry(p) ==
    \E n \in 1..Len(known_prefixes) : p = known_prefixes[n]

\* any(p == kp.split('.')[0] for kp in known_prefixes)
IsKnown(p) ==
    \E n \in 1..Len(known_prefixes) : p = FirstSegment(known_prefixes[n])

\* {p: c for p, c in top.items() if not any(...)}
Unknown(top) == SelectSeq(top, LAMBDA it : ~IsKnown(it.p))

RECURSIVE ByCountDesc(_)
\* sorted(unknown.items(), key=lambda x: -x[1]): stable, so equal counts keep
\* their insertion order
ByCountDesc(items) ==
    IF items = <<>> THEN <<>>
    ELSE LET n == Min({a \in 1..Len(items) :
                          \A b \in 1..Len(items) : items[a].c >= items[b].c})
         IN  <<items[n]>>
             \o ByCountDesc(SubSeq(items, 1, n - 1) \o SubSeq(items, n + 1, Len(items)))

\* the lines the unknown-prefix step sets out to print:
\* if unknown: print('Unknown top-level prefixes:'); for p, c in ...[:10]: print(...)
UnknownReport(unknown) ==
    IF unknown # <<>>
    THEN LET listed == Take(ByCountDesc(unknown), TopUnknown)
         IN  <<[t |-> "unknown_header"]>>
             \o [n \in 1..Len(listed) |->
                    [t |-> "unknown", p |-> listed[n].p, c |-> listed[n].c]]
    ELSE <<>>

\* sys.stdout (UTF-8) encodes every code point but a surrogate; the other
\* report lines are fixed ASCII text and numbers
Encodable(line) ==
    line.t = "unknown" => \A i \in 1..Len(line.p) : line.p[i] # "U+D800"

\* print() of the lines in turn: the lines written before the first one that
\* cannot be encoded, and whether print raised UnicodeEncodeError there
WriteLines(lines) ==
    LET bad == {n \in 1..Len(lines) : ~Encodable(lines[n])}
    IN  IF bad = {} THEN [written |-> lines, raised |-> FALSE]
        ELSE [written |-> SubSeq(lines, 1, Min(bad) - 1), raised |-> TRUE]

(***************************************************************************)
(* The input: the file at args.index.  A JSON value is a record: t is its  *)
(* JSON type; for the top-level value has_wm says whether 'weight_map' in  *)
(* idx holds (a key of an object, an element of an array, a substring of a *)
(* string) and wm is idx['weight_map']; for a mapping, keys is its keys in *)
(* file order.  A file is "ok" when it holds well-formed JSON,             *)
(* "nonstandard" when it holds JSON but for a NaN, Infinity or -Infinity   *)
(* literal, which json.load accepts, and "malformed" when json.load        *)
(* rejects it.                                                             *)
(***************************************************************************)
ScalarTypes == {"number", "boolean", "null"}
Null == [t |-> "null", keys |-> <<>>]
Mapping(ks) == [t |-> "object", keys |-> ks]
NonMappings == {[t |-> ty, keys |-> <<>>] : ty \in {"array", "string"} \cup ScalarTypes}

\* documents with no weight_map mapping
OtherDocs ==
    {[t |-> "object", has_wm |-> FALSE, wm |-> Null]}
    \cup {[t |-> "object", has_wm |-> TRUE, wm |-> v] : v \in NonMappings}
    \cup {[t |-> ty, has_wm |-> b, wm |-> Null] : ty \in {"array", "string"}, b \in BOOLEAN}
    \cup {[t |-> ty, has_wm |-> FALSE, wm |-> Null] : ty \in ScalarTypes}

IndexDoc(ks) == [t |-> "object", has_wm |-> TRUE, wm |-> Mapping(ks)]

NoDoc == [t |-> "null", has_wm |-> FALSE, wm |-> Null]

BadFiles == {[st |-> s, doc |-> NoDoc] : s \in {"missing", "unreadable", "malformed"}}

\* bounds of the checked inputs
MaxKeys == 3
MaxExtra == 2
NumLetters == 12

Join(a, b) == a \o Dot \o b
Join3(a, b, c) == a \o Dot \o b \o Dot \o c
W == <<"w">>

\* tensor names around the required keys and the audio patterns
TopLevelNames ==
    << Join(s_text_emb, s_weight),
       Join(s_text_out_head, s_weight),
       Join(s_text_emb, s_weight) \o <<"x">>,
       s_text_emb,
       Join3(s_audio_emb, <<"0">>, s_weight),
       Join3(s_audio_emb, <<"1", "2">>, s_weight),
       Join3(s_audio_out_heads, <<"0">>, s_weight),
       Join3(s_audio_out_heads, <<"7">>, s_weight),
       Join3(s_audio_emb, <<>>, s_weight),
       Join3(s_audio_emb, <<"x">>, s_weight),
       Join3(s_audio_emb, <<"0">>, s_weight) \o Dot \o <<"x">>,
       <<"x">> \o Join3(s_audio_emb, <<"0">>, s_weight),
       Join3(s_audio_emb, <<"0">>, s_weight) \o <<NL>>,
       Join3(s_audio_emb, <<"U+0663">>, s_weight),
       Join3(s_audio_out_heads, <<"1">>, s_weight) \o <<NL>>,
       s_audio_emb \o Dot \o <<"0", "x">> \o s_weight >>

\* tensor names around the layer pattern
LayerNames ==
    << Join3(s_transformer, <<"0">>, Join(s_attn, W)),
       Join3(s_layers, <<"0">>, Join(s_mlp, W)),
       Join3(Join(s_model, s_layers), <<"0">>, Join(s_norm1, W)),
       Join3(s_layers, <<"2">>, Join(s_self_attn, W)),
       Join3(s_layers, <<"1", "0">>, Join(s_attention, W)),
       Join3(s_layers, <<"1", "1">>, Join(s_ffn, W)),
       Join3(s_layers, <<"1">>, Join(s_feed_forward, W)),
       Join3(s_layers, <<"1">>, Join(s_attention_norm, W)),
       Join3(s_layers, <<"2">>, s_norm2),
       Join3(s_transformer, <<"0">>, s_ffn_norm),
       Join3(s_layers, <<"1">>, Join(s_post_attention_layernorm, W)),
       Join3(s_layers, <<"0">>, <<"x", "_">> \o Join(s_attn, W)),
       Join3(s_layers, <<"2">>, s_mlp),
       Join3(s_layers, <<"0">>, <<>>),
       Join(s_layers, <<"0">>),
       Join3(s_model, <<"0">>, W),
       Join3(s_layers, <<"x">>, W),
       Join3(<<"x">> \o s_layers, <<"0">>, W),
       Join3(s_layers, <<"0">>, <<NL>> \o Join(s_attn, W)),
       Join3(s_layers, <<"3">>, Join(s_attn, W) \o <<NL>> \o Join(s_mlp, W)),
       Join3(s_layers, <<"0", "3">>, Join(s_mlp, W)),
       Join3(s_layers, <<"U+0663">>, Join(s_norm2, W)) >>

\* tensor names around the known top-level prefixes
PrefixNames ==
    << Join(s_model, s_weight),
       Join3(s_model, s_norm, W),
       s_norm,
       Join(s_output_norm, W),
       Join(s_model \o <<"s">>, W),
       <<>>,
       Dot \o W,
       Join(<<"l">>, <<"x">>),
       Join(<<"l">>, <<"y">>),
       Join(<<"a">>, <<"x">>),
       Join(s_norm \o <<"1">>, W),
       Join(<<"U+D800">>, W),
       Join(s_norm, <<"U+D800">>) >>

\* tensor names that are each their own top-level prefix
Letters == <<"a", "b", "c", "d", "e", "f", "g", "h", "i", "j", "k", "l", "m", "n">>
LetterNames(n) == [i \in 1..n |-> <<Letters[i]>>]

RECURSIVE Pick(_, _)
\* the names of U at the indices in S, in U's order
Pick(U, S) ==
    IF S = {} THEN <<>>
    ELSE LET m == Min(S) IN <<U[m]>> \o Pick(U, S \ {m})

Reverse(s) == [i \in 1..Len(s) |-> s[Len(s) + 1 - i]]

UpTo(U, n) == {S \in SUBSET (1..Len(U)) : Cardinality(S) <= n}

\* key lists: up to MaxKeys names of one family in file order or reversed,
\* and up to MaxExtra prefix names before or after the first n letter names
KeyLists ==
    {Pick(TopLevelNames, S) : S \in UpTo(TopLevelNames, MaxKeys)}
    \cup {Reverse(Pick(TopLevelNames, S)) : S \in UpTo(TopLevelNames, MaxKeys)}
    \cup {Pick(LayerNames, S) : S \in UpTo(LayerNames, MaxKeys)}
    \cup {Reverse(Pick(LayerNames, S)) : S \in UpTo(LayerNames, MaxKeys)}
    \cup {Pick(PrefixNames, S) \o LetterNames(n) :
            S \in UpTo(PrefixNames, MaxExtra), n \in 0..NumLetters}
    \cup {LetterNames(n) \o Pick(PrefixNames, S) :
            S \in UpTo(PrefixNames, MaxExtra), n \in 0..NumLetters}

\* a file that is the literal NaN, and index files with a NaN among the
\* fields main() does not read
NonStandardFiles ==
    {[st |-> "nonstandard", doc |-> d] :
        d \in {[t |-> "number", has_wm |-> FALSE, wm |-> Null],
               IndexDoc(<<>>),
               IndexDoc(<<Join(s_text_emb, s_weight), Join(<<"a">>, <<"x">>)>>)}}

Files ==
    BadFiles
    \cup NonStandardFiles
    \cup {[st |-> "ok", doc |-> d] : d \in OtherDocs}
    \cup {[st |-> "ok", doc |-> IndexDoc(ks)] : ks \in KeyLists}

(***************************************************************************)
(* main()                                                                  *)
(***************************************************************************)
Init ==
    /\ file \in Files
    /\ pc = "load"
    /\ idx = NoDoc
    /\ keys = <<>>
    /\ have = {}
    /\ layer_prefixes = <<>>
    /\ out = <<>>
    /\ status = -1
    /\ err = ""

\* an uncaught exception or SystemExit(str): the process exits with status 1
Raise(e) ==
    /\ pc' = "exited"
    /\ status' = 1
    /\ err' = e
    /\ UNCHANGED <<file, idx, keys, have, layer_prefixes>>

\* variant: a failed load falls back to an empty index
LoadResult_default(f) ==
    IF f.st \in {"ok", "nonstandard"} THEN [ok |-> TRUE, val |-> f.doc, e |-> ""]
    ELSE [ok |-> TRUE, val |-> IndexDoc(<<>>), e |-> ""]

\* with open(args.index, 'r', encoding='utf-8') as f: idx = json.load(f)
LoadResult(f) ==
    CASE f.st \in {"ok", "nonstandard"} -> [ok |-> TRUE, val |-> f.doc, e |-> ""]
      [] f.st \in {"missing", "unreadable"} -> [ok |-> FALSE, val |-> f.doc, e |-> "OSError"]
      [] f.st = "malformed" -> [ok |-> FALSE, val |-> f.doc, e |-> "JSONDecodeError"]

Load ==
    /\ pc = "load"
    /\ LET r == LoadResult(file)
       IN  IF r.ok
           THEN /\ idx' = r.val
                /\ pc' = "validate"
                /\ UNCHANGED <<file, keys, have, layer_prefixes, out, status, err>>
           ELSE Raise(r.e) /\ UNCHANGED out

\* if 'weight_map' not in idx: raise SystemExit('Invalid index: missing weight_map')
Validate ==
    /\ pc = "validate"
    /\ IF idx.t \in ScalarTypes
       THEN Raise("TypeError") /\ UNCHANGED out
       ELSE IF ~idx.has_wm
            THEN Raise("Invalid index: missing weight_map") /\ UNCHANGED out
            ELSE /\ pc' = "enumerate"
                 /\ UNCHANGED <<file, idx, keys, have, layer_prefixes, out, status, err>>

\* keys = list(idx['weight_map'].keys()); print(f'Total tensors: {len(keys)}')
Enumerate ==
    /\ pc = "enumerate"
    /\ IF idx.t # "object"
       THEN Raise("TypeError") /\ UNCHANGED out
       ELSE IF idx.wm.t # "object"
            THEN Raise("AttributeError") /\ UNCHANGED out
            ELSE /\ keys' = idx.wm.keys
                 /\ out' = Append(out, [t |-> "total", n |-> Len(idx.wm.keys)])
                 /\ pc' = "required"
                 /\ UNCHANGED <<file, idx, have, layer_prefixes, status, err>>

\* have = set(keys); the loop over required
Required ==
    /\ pc = "required"
    /\ have' = SetOf(keys)
    /\ out' = out \o RequiredLines(SetOf(keys))
    /\ pc' = "audio"
    /\ UNCHANGED <<file, idx, keys, layer_prefixes, status, err>>

Audio ==
    /\ pc = "audio"
    /\ out' = out \o AudioLines(keys)
    /\ pc' = "group"
    /\ UNCHANGED <<file, idx, keys, have, layer_prefixes, status, err>>

\* layer_prefixes = defaultdict(list); for k in keys: ...
Group ==
    /\ pc = "group"
    /\ layer_prefixes' = GroupLayers(keys, <<>>)
    /\ pc' = "layers"
    /\ UNCHANGED <<file, idx, keys, have, out, status, err>>

Layers ==
    /\ pc = "layers"
    /\ out' = out \o LayerReport(layer_prefixes)
    /\ pc' = "unknown"
    /\ UNCHANGED <<file, idx, keys, have, layer_prefixes, status, err>>

UnknownPrefixes ==
    /\ pc = "unknown"
    /\ LET r == WriteLines(UnknownReport(Unknown(Tally(keys, <<>>))))
       IN  /\ out' = out \o r.written
           /\ IF r.raised
              THEN Raise("UnicodeEncodeError")
              ELSE /\ pc' = "done"
                   /\ UNCHANGED <<file, idx, keys, have, layer_prefixes, status, err>>

\* print('Done.'); main() returns and the interpreter exits with status 0
Done ==
    /\ pc = "done"
    /\ out' = Append(out, [t |-> "done"])
    /\ pc' = "exited"
    /\ status' = 0
    /\ UNCHANGED <<file, idx, keys, have, layer_prefixes, err>>

Next ==
    \/ Load
    \/ Validate
    \/ Enumerate
    \/ Required
    \/ Audio
    \/ Group
    \/ Layers
    \/ UnknownPrefixes
    \/ Done

Spec == Init /\ [][Next]_vars

(***************************************************************************)
(* Vocabulary of the properties: the input as given, the report as written.*)
(***************************************************************************)
WellFormed == file.st = "ok"
Loaded == file.st \in {"ok", "nonstandard"}
IsIndex == Loaded /\ file.doc.t = "object" /\ file.doc.has_wm /\ file.doc.wm.t = "object"
InputKeys == file.doc.wm.keys
InputSet == {InputKeys[i] : i \in 1..Len(InputKeys)}
Exited == pc = "exited"
Completed == pc = "exited" /\ status = 0
LinesOf(ty) == SelectSeq(out, LAMBDA l : l.t = ty)
ReportTypes == {out[n].t : n \in 1..Len(out)}
AfterRequired == {"audio", "group", "layers", "unknown", "done", "exited"}
AfterAudio == {"group", "layers", "unknown", "done", "exited"}
AfterLayers == {"unknown", "done", "exited"}
AfterUnknown == {"done", "exited"}
Count(S) == Cardinality(S)
Smaller(a, b) == IF a < b THEN a ELSE b

\* C1: every parsed document without a weight_map mapping ends with the
\* message "Invalid index: missing weight_map", a non-zero status and no
\* report line
C1_MissingWeightMapMessage ==
    (Loaded /\ ~IsIndex /\ Exited) =>
        /\ err = "Invalid index: missing weight_map"
        /\ status # 0
        /\ out = <<>>

SectionRank(ty) ==
    CASE ty = "total" -> 1
      [] ty = "required" -> 2
      [] ty = "audio_emb" -> 3
      [] ty = "audio_out_heads" -> 4
      [] ty \in {"found", "layer", "no_layers"} -> 5
      [] ty \in {"unknown_header", "unknown"} -> 6
      [] ty = "done" -> 7

\* C3: a run over a weight_map mapping never reaches an error state, writes
\* its sections in the fixed order, and ends with status 0 and "Done." once,
\* as the last line
C3_IndexRunCompletes ==
    IsIndex =>
        /\ err = ""
        /\ status \in {-1, 0}
        /\ \A a, b \in 1..Len(out) : a < b => SectionRank(out[a].t) <= SectionRank(out[b].t)
        /\ ~Exited => (status = -1 /\ "done" \notin ReportTypes)
        /\ Exited =>
            /\ status = 0
            /\ out[Len(out)].t = "done"
            /\ Len(LinesOf("done")) = 1
            /\ {SectionRank(ty) : ty \in ReportTypes} \in {{1, 2, 3, 4, 5, 7}, {1, 2, 3, 4, 5, 6, 7}}

\* C4: the required-key step writes two lines, text_emb.weight and then
\* text_out_head.weight, each "OK" exactly when that exact name is a key
C4_RequiredLines ==
    IsIndex =>
        LET L == LinesOf("required")
            names == <<Join(s_text_emb, s_weight), Join(s_text_out_head, s_weight)>>
        IN  IF pc \in AfterRequired
            THEN /\ Len(L) = 2
                 /\ \A n \in 1..2 :
                      /\ L[n].k = names[n]
                      /\ L[n].status \in {"OK", "MISSING"}
                      /\ L[n].status = "OK" <=> names[n] \in InputSet
            ELSE L = <<>>

C4_Witness ==
    /\ IsIndex /\ Completed
    /\ Join(s_text_emb, s_weight) \o <<"x">> \in InputSet
    /\ LinesOf("required")[1].status = "OK"
    /\ LinesOf("required")[2].status = "MISSING"

\* name, ".", one or more ASCII digits, ".weight", and nothing else
ExactAudioForm(name, k) ==
    LET p == name \o Dot
        w == Dot \o s_weight
    IN  /\ Len(k) > Len(p) + Len(w)
        /\ SubSeq(k, 1, Len(p)) = p
        /\ SubSeq(k, Len(k) - Len(w) + 1, Len(k)) = w
        /\ \A i \in (Len(p) + 1)..(Len(k) - Len(w)) : k[i] \in AsciiDigits

\* C5: each audio count is the number of keys that are, in their entirety,
\* the name, ".", one or more ASCII digits and ".weight"
C5_AudioCounts ==
    (IsIndex /\ pc \in AfterAudio) =>
        /\ LinesOf("audio_emb") =
             <<[t |-> "audio_emb", n |-> Count({k \in InputSet : ExactAudioForm(s_audio_emb, k)})]>>
        /\ LinesOf("audio_out_heads") =
             <<[t |-> "audio_out_heads",
                n |-> Count({k \in InputSet : ExactAudioForm(s_audio_out_heads, k)})]>>

RECURSIVE DecimalValue(_)
DecimalValue(ds) ==
    IF ds = <<>> THEN 0
    ELSE DecimalValue(SubSeq(ds, 1, Len(ds) - 1)) * 10 + DigitValue(ds[Len(ds)])

\* the places where k splits as family "." integer "." rest, rest non-empty
LayerForms(k) ==
    {<<a, j>> \in (1..Len(layer_alternatives)) \X (1..Len(k)) :
        LET p == layer_alternatives[a] \o Dot
        IN  /\ Len(k) > Len(p)
            /\ SubSeq(k, 1, Len(p)) = p
            /\ j > Len(p) + 1
            /\ j < Len(k)
            /\ k[j] = "."
            /\ \A i \in (Len(p) + 1)..(j - 1) : k[i] \in AsciiDigits}

LayerIndexOf(k) ==
    LET f == CHOOSE f \in LayerForms(k) : TRUE
    IN  DecimalValue(SubSeq(k, Len(layer_alternatives[f[1]]) + 2, f[2] - 1))

\* C6: "Found N layers" with N the number of distinct layer indices among
\* the keys of layer form when there is such a key, else the no-layers line
\* and no Layer line
C6_LayerCount ==
    (IsIndex /\ pc \in AfterLayers) =>
        LET layered == {k \in InputSet : LayerForms(k) # {}}
        IN  IF layered # {}
            THEN /\ LinesOf("found") =
                      <<[t |-> "found", n |-> Count({LayerIndexOf(k) : k \in layered})]>>
                 /\ LinesOf("no_layers") = <<>>
            ELSE /\ LinesOf("no_layers") = <<[t |-> "no_layers"]>>
                 /\ LinesOf("found") = <<>>
                 /\ LinesOf("layer") = <<>>

\* C7: with N layer indices found there are min(2, N) Layer lines, the n-th
\* for the n-th lowest index in numeric order
C7_LowestTwoLayers ==
    (IsIndex /\ pc \in AfterLayers) =>
        LET found == DOMAIN layer_prefixes
            L == LinesOf("layer")
        IN  /\ Len(L) = Smaller(2, Count(found))
            /\ found # {} => LinesOf("found") = <<[t |-> "found", n |-> Count(found)]>>
            /\ \A n \in 1..Len(L) :
                 /\ L[n].i \in found
                 /\ Count({j \in found : j < L[n].i}) = n - 1

C7_Witness ==
    /\ IsIndex /\ Completed
    /\ DOMAIN layer_prefixes = {2, 10, 11}
    /\ LinesOf("layer")[1].i = 2
    /\ LinesOf("layer")[2].i = 10

Begins(s, pfx) ==
    /\ Len(s) >= Len(pfx)
    /\ \A i \in 1..Len(pfx) : s[i] = pfx[i]

SomeBegins(params, pfxs) ==
    \E n \in 1..Len(params) : \E q \in pfxs : Begins(params[n], q)

\* C8: the flags of a Layer line are decided by the suffixes grouped under
\* that layer index alone: attn by self_attn. / attention. / attn., mlp by
\* mlp. / feed_forward. / ffn., the norms by norm1 / attention_norm and by
\* norm2 / ffn_norm / post_attention_layernorm
C8_LayerFlags ==
    (IsIndex /\ pc \in AfterLayers) =>
        \A n \in 1..Len(out) :
            out[n].t = "layer" =>
                LET params == layer_prefixes[out[n].i]
                IN  /\ out[n].attn <=>
                         SomeBegins(params, {s_self_attn \o Dot, s_attention \o Dot, s_attn \o Dot})
                    /\ out[n].mlp <=>
                         SomeBegins(params, {s_mlp \o Dot, s_feed_forward \o Dot, s_ffn \o Dot})
                    /\ out[n].norm1 <=> SomeBegins(params, {s_norm1, s_attention_norm})
                    /\ out[n].norm2 <=>
                         SomeBegins(params, {s_norm2, s_ffn_norm, s_post_attention_layernorm})

C8_Witness ==
    /\ IsIndex /\ Completed
    /\ Len(LinesOf("layer")) = 2
    /\ LET L == LinesOf("layer")
       IN  /\ ~L[1].attn /\ L[1].mlp
           /\ ~L[2].attn /\ ~L[2].mlp /\ L[2].norm1 /\ ~L[2].norm2
    /\ Join3(s_layers, <<"0">>, <<"x", "_">> \o Join(s_attn, W)) \in InputSet

\* the substring before the first dot, the whole key without one
TopLevelPrefix(k) ==
    LET n == CHOOSE n \in 0..Len(k) :
                /\ \A i \in 1..n : k[i] # "."
                /\ n = Len(k) \/ k[n + 1] = "."
    IN  SubSeq(k, 1, n)

KnownFirstSegments ==
    {s_text_emb, s_text_out_head, s_audio_emb, s_audio_out_heads, s_transformer,
     s_layers, s_model, s_output_norm, s_norm}

UnknownPrefixSet == {TopLevelPrefix(k) : k \in InputSet} \ KnownFirstSegments
KeysUnder(p) == {k \in InputSet : TopLevelPrefix(k) = p}

\* C9: a listed prefix is the part before the first dot of some key and is
\* none of the nine known first segments, and its count is the number of
\* keys under it; the header is there exactly when such a prefix exists, and
\* a completed report of at most ten such prefixes lists them all
C9_UnknownPrefixes ==
    (IsIndex /\ pc \in AfterUnknown) =>
        LET listed == {out[n].p : n \in {m \in 1..Len(out) : out[m].t = "unknown"}}
        IN  /\ listed \subseteq UnknownPrefixSet
            /\ "unknown_header" \in ReportTypes <=> UnknownPrefixSet # {}
            /\ (Completed /\ Count(UnknownPrefixSet) <= 10) => listed = UnknownPrefixSet
            /\ \A n \in 1..Len(out) :
                 out[n].t = "unknown" => out[n].c = Count(KeysUnder(out[n].p))

C9_Witness ==
    /\ IsIndex /\ Completed
    /\ Join(s_model, s_weight) \in InputSet
    /\ \E n \in 1..Len(out) : out[n].t = "unknown" /\ out[n].p = <<"a">> /\ out[n].c = 2

\* C10: the header is written exactly when some prefix is unknown, and is
\* followed by min(10, number of unknown prefixes) lines for distinct
\* unknown prefixes, in non-increasing order of count, none of them with a
\* smaller count than an unlisted unknown prefix
C10_UnknownListing ==
    (IsIndex /\ pc \in AfterUnknown) =>
        LET H == {n \in 1..Len(out) : out[n].t = "unknown_header"}
            L == LinesOf("unknown")
            listed == {L[n].p : n \in 1..Len(L)}
        IN  /\ H # {} <=> UnknownPrefixSet # {}
            /\ Count(H) <= 1
            /\ Len(L) = Smaller(10, Count(UnknownPrefixSet))
            /\ Count(listed) = Len(L)
            /\ listed \subseteq UnknownPrefixSet
            /\ \A h \in H : \A n \in 1..Len(out) :
                 out[n].t = "unknown" <=> (h < n /\ n <= h + Len(L))
            /\ \A a, b \in 1..Len(L) : a < b => L[a].c >= L[b].c
            /\ \A u \in UnknownPrefixSet \ listed :
                 \A n \in 1..Len(L) : Count(KeysUnder(u)) <= L[n].c

====
